---- MODULE Spec2Model ----
(***************************************************************************)
(* Model of the wellness app: the nutrition-target calculators and the    *)
(* state that holds their results, the two wellness chats (the screen of   *)
(* MindChatScreenSimple.tsx, first component of the file, and the screen   *)
(* driven by MindScoreChatService), and the food scan.                     *)
(*                                                                         *)
(* Numbers.  The source computes in IEEE doubles; the model computes the   *)
(* same quantities exactly, as scaled integers:                            *)
(*   bmr   is held in quarter kilocalories   (6.25 = 25/4),                *)
(*   tdee  is held in 1/4000 kilocalories    (multipliers are n/1000),     *)
(*   bmi   is held in tenths                 (Math.round(x * 10) / 10),    *)
(*   every rounded target is a plain integer (kcal or grams).              *)
(* Math.round(x) is floor(x + 1/2).  NaN is a reserved value that every    *)
(* arithmetic operator propagates.  On every input of the domains below    *)
(* the doubles of the source round to the same integers as the exact       *)
(* values; the domains hold no weight and height whose bmi x 10 is an      *)
(* exact half, where a double can fall on the other side.                  *)
(***************************************************************************)
EXTENDS Integers, Sequences, FiniteSets, Bags, TLC

VARIABLES
    \* --- the calculators applied to a drawn profile ---
    input,              \* the profile handed to the three calculators
    nutritionTargets,   \* ProfileScreen.calculateNutritionTargets: locals and result
    dailyRequirements,  \* FoodRecognitionService.calculateDailyRequirements: locals and result
    tdeeResult,         \* SupabaseService.calculateTDEE: locals and result
    previousLevel,      \* the activity level before its latest change ("none": unchanged)
    bmiResult,          \* bmi of the drawn profile: calculateBMI and the profile screen's effect
    \* --- App.tsx and ProfileScreen component state ---
    currentScreen,      \* App: useState<Screen>
    userProfile,        \* App: useState<UserProfile>
    profile,            \* ProfileScreen: useState(userProfile)
    editedProfile,      \* ProfileScreen: useState(userProfile)
    isEditing,          \* ProfileScreen: useState(false)
    \* --- SupabaseService: the user's row of user_profiles ---
    row,                \* the stored row (exists = FALSE: no row)
    call,               \* the updateUserProfile call in flight
    \* --- MindChatScreenSimple component state ---
    conversationCount,  \* useState(0)
    isLoading,          \* useState(false)
    isComplete,         \* useState(false)
    finalScore,         \* useState<number | null>(null): <<>> is null
    conversationState,  \* useState<ConversationState>: emotionalTone, microInsights
    sending,            \* handleSend invocations awaiting the model's replies
    timers,             \* pending setTimeout callbacks
    concluding,         \* concludeConversation invocations awaiting the model's reply
    path,               \* the branch the latest concludeConversation ended on
    \* --- MindChatScreen component state and its MindScoreChatService calls ---
    context,            \* useState<ConversationContext>: messageCount, userResponses, assessmentData
    userMessages,       \* the number of user messages sent
    generating,         \* a generateNextQuestion call is in flight
    exchange,           \* the latest generateNextQuestion result and the message it answered
    conversationComplete, \* useState(false)
    replyTimers,        \* pending 1500 ms timers of handleSend
    calculating,        \* concludeConversation invocations waiting for calculateMindScore
    mindScore,          \* useState<MindScoreMetrics | null>(null): <<>> is null
    \* --- FoodScannerScreen component state ---
    isAnalyzing,        \* useState(false)
    analysisResult,     \* useState<RefinedAnalysis | null>(null): <<>> is null
    alert,              \* the 'Analysis Failed' alert is shown
    scanning,           \* analyzeFood: "idle", "analyzing" (awaiting the service), "done"
    requirements,       \* what refineNutritionData computed for the latest scan
    modelReply,         \* what the model answered during the latest scan
    imageAnalysis,      \* what analyzeFoodImage returned for the latest scan
    \* --- SupabaseService: the user's gamification data and the calls on it ---
    total_points,       \* user_profiles.total_points
    current_badges,     \* user_profiles.current_badges
    streak_count,       \* user_profiles.streak_count
    achievements,       \* the user's rows of achievements: their badge_name
    user_streaks,       \* the user's rows of user_streaks; the position is the id
    today,              \* the day new Date() falls on, as a day number
    inFlight,           \* the saveFoodLog, saveMindScore, awardAchievement calls in flight
    started,            \* the number of calls made so far
    awarded,            \* the sum of the points the calls have awarded
    sequential          \* no call was made while another was in flight

calcVars == <<input, nutritionTargets, dailyRequirements, tdeeResult, previousLevel,
              bmiResult>>
appVars  == <<currentScreen, userProfile, profile, editedProfile, isEditing>>
dbVars   == <<row, call>>
chatVars == <<conversationCount, isLoading, isComplete, finalScore, conversationState,
              sending, timers, concluding, path>>
mindVars == <<context, userMessages, generating, exchange, conversationComplete,
              replyTimers, calculating, mindScore>>
foodVars == <<isAnalyzing, analysisResult, alert, scanning, requirements,
              modelReply, imageAnalysis>>
gameVars == <<total_points, current_badges, streak_count, achievements, user_streaks,
              today, inFlight, started, awarded, sequential>>
extVars  == <<chatVars, mindVars, foodVars, gameVars>>
vars     == <<input, nutritionTargets, dailyRequirements, tdeeResult, previousLevel,
              bmiResult,
              currentScreen, userProfile, profile, editedProfile, isEditing,
              row, call,
              conversationCount, isLoading, isComplete, finalScore, conversationState,
              sending, timers, concluding, path,
              context, userMessages, generating, exchange, conversationComplete,
              replyTimers, calculating, mindScore,
              isAnalyzing, analysisResult, alert, scanning, requirements,
              modelReply, imageAnalysis,
              total_points, current_badges, streak_count, achievements, user_streaks,
              today, inFlight, started, awarded, sequential>>

----------------------------------------------------------------------------
(* Bounds of the input domains.                                            *)

MaxAge    == 30
MaxWeight == 75
MaxHeight == 176

MaxEditAge    == 28
MaxEditWeight == 76
MaxEditHeight == 175

MaxDbAge    == 29
MaxDbWeight == 76
MaxDbHeight == 175
MaxUpdatedFields == 2

\* The five activity levels of the type, in the order of the pickers.
ActivityLevels == <<"sedentary", "light", "moderate", "active", "very_active">>
ActivityLevelSet == {ActivityLevels[i] : i \in 1..Len(ActivityLevels)}

\* Position of a level in that order (0 for a string that is no level).
Rank(level) ==
    IF level \in ActivityLevelSet
    THEN CHOOSE i \in 1..Len(ActivityLevels) : ActivityLevels[i] = level
    ELSE 0

\* Profiles drawn for the calculators: every value a caller can pass,
\* valid or not (0 is what the screen's `parse(text) || 0` yields for an
\* empty or unparsable text, "extreme" is a string outside the type).
Genders    == {"male", "female", "other"}
Ages       == {0} \cup (28..MaxAge)
Weights    == {0, 1} \cup (70..MaxWeight)
Heights    == {-5, 1, 47} \cup (175..MaxHeight)
Activities == ActivityLevelSet \cup {"extreme"}

\* What the profile screen's fields can be set to: the number parsed from the
\* text, or 0 for an empty or unparsable text (`parseInt(text) || 0`,
\* `parseFloat(text) || 0`); the three gender options of the picker.
EditAges    == {0} \cup (28..MaxEditAge)
EditWeights == {0} \cup (75..MaxEditWeight)
EditHeights == {0} \cup (175..MaxEditHeight)

\* The stored profiles and the updates of them (heights are non-zero, so that
\* calculateBMI does not divide by zero).
DbGenders == {"male", "female"}
DbAges    == 28..MaxDbAge
DbWeights == 75..MaxDbWeight
DbHeights == 175..MaxDbHeight

----------------------------------------------------------------------------
(* JavaScript arithmetic on the scaled integers.                           *)

\* The NaN that `bmr * undefined` evaluates to.
NaN == -1000000000

Mul(a, b) == IF a = NaN \/ b = NaN THEN NaN ELSE a * b

\* Math.round of the rational n/d (d > 0): floor(n/d + 1/2); NaN stays NaN.
MathRound(n, d) == IF n = NaN THEN NaN ELSE (2 * n + d) \div (2 * d)

----------------------------------------------------------------------------
(* ProfileScreen.calculateNutritionTargets                                 *)

\* A slip in the branches: the two constants exchanged.
ProfileBmrExchanged(p) ==
    IF p.gender = "male"
    THEN 4 * 10 * p.weight + 25 * p.height - 4 * 5 * p.age - 4 * 161
    ELSE 4 * 10 * p.weight + 25 * p.height - 4 * 5 * p.age + 4 * 5

\* let bmr: the Mifflin-St Jeor branch, in quarter kcal.
ProfileBmr(p) ==
    IF p.gender = "male"
    THEN 4 * 10 * p.weight + 25 * p.height - 4 * 5 * p.age + 4 * 5
    ELSE 4 * 10 * p.weight + 25 * p.height - 4 * 5 * p.age - 4 * 161

\* const activityMultipliers, in thousandths; a key that is not in the object
\* reads undefined, and bmr * undefined is NaN.
ProfileMultiplier(level) ==
    CASE level = "sedentary"   -> 1200
      [] level = "light"       -> 1375
      [] level = "moderate"    -> 1550
      [] level = "active"      -> 1725
      [] level = "very_active" -> 1900
      [] OTHER                 -> NaN

\* const tdee = bmr * activityMultipliers[activityLevel], in 1/4000 kcal.
ProfileTdee(p) == Mul(ProfileBmr(p), ProfileMultiplier(p.activityLevel))

\* The macro targets are computed from the rounded dailyCalorieTarget.
calculateNutritionTargets(p) ==
    LET tdee               == ProfileTdee(p)
        dailyCalorieTarget == MathRound(tdee, 4000)
        dailyProteinTarget == MathRound(p.weight * 12, 10)
        dailyCarbTarget    == MathRound(Mul(dailyCalorieTarget, 45), 100 * 4)
        dailyFatTarget     == MathRound(Mul(dailyCalorieTarget, 30), 100 * 9)
    IN  [dailyCalorieTarget |-> dailyCalorieTarget,
         dailyProteinTarget |-> dailyProteinTarget,
         dailyCarbTarget    |-> dailyCarbTarget,
         dailyFatTarget     |-> dailyFatTarget]

----------------------------------------------------------------------------
(* FoodRecognitionService.calculateDailyRequirements                       *)

FoodBmr(p) ==
    IF p.gender = "male"
    THEN 4 * 10 * p.weight + 25 * p.height - 4 * 5 * p.age + 4 * 5
    ELSE 4 * 10 * p.weight + 25 * p.height - 4 * 5 * p.age - 4 * 161

\* A slip in the table: moderate typed as 1.5.
FoodMultiplierTypo(level) ==
    CASE level = "sedentary"   -> 1200
      [] level = "light"       -> 1375
      [] level = "moderate"    -> 1500
      [] level = "active"      -> 1725
      [] level = "very_active" -> 1900
      [] OTHER                 -> NaN

FoodMultiplier(level) ==
    CASE level = "sedentary"   -> 1200
      [] level = "light"       -> 1375
      [] level = "moderate"    -> 1550
      [] level = "active"      -> 1725
      [] level = "very_active" -> 1900
      [] OTHER                 -> NaN

\* const tdee = bmr * activityMultipliers[profile.physicalActivity]
FoodTdee(p) == Mul(FoodBmr(p), FoodMultiplier(p.physicalActivity))

\* A slip in the fat target: divided by 4 kcal/g, as the carbohydrates are.
calculateDailyRequirementsFatBy4(p) ==
    LET tdee == FoodTdee(p)
    IN  [calories |-> MathRound(tdee, 4000),
         protein  |-> MathRound(p.weight * 8, 10),
         carbs    |-> MathRound(Mul(tdee, 45), 4000 * 100 * 4),
         fats     |-> MathRound(Mul(tdee, 30), 4000 * 100 * 4)]

\* Here carbs and fats are computed from the unrounded tdee.
calculateDailyRequirements(p) ==
    LET tdee == FoodTdee(p)
    IN  [calories |-> MathRound(tdee, 4000),
         protein  |-> MathRound(p.weight * 8, 10),
         carbs    |-> MathRound(Mul(tdee, 45), 4000 * 100 * 4),
         fats     |-> MathRound(Mul(tdee, 30), 4000 * 100 * 9)]

----------------------------------------------------------------------------
(* SupabaseService.calculateBMI and calculateTDEE                          *)

\* A slip in the rounding: Math.floor for Math.round.
calculateBMIFloor(weight, height) == (weight * 100 * 100 * 10) \div (height * height)

\* Math.round((weight / (heightInMeters * heightInMeters)) * 10) / 10, in
\* tenths; the callers below pass a non-zero height.
calculateBMI(weight, height) == MathRound(weight * 100 * 100 * 10, height * height)

SupabaseBmr(p) ==
    IF p.gender = "male"
    THEN 4 * 10 * p.weight + 25 * p.height - 4 * 5 * p.age + 4 * 5
    ELSE 4 * 10 * p.weight + 25 * p.height - 4 * 5 * p.age - 4 * 161

\* A slip in the table: the values of light and moderate exchanged.
SupabaseMultiplierExchanged(level) ==
    CASE level = "sedentary"   -> 1200
      [] level = "light"       -> 1550
      [] level = "moderate"    -> 1375
      [] level = "active"      -> 1725
      [] level = "very_active" -> 1900
      [] OTHER                 -> NaN

SupabaseMultiplier(level) ==
    CASE level = "sedentary"   -> 1200
      [] level = "light"       -> 1375
      [] level = "moderate"    -> 1550
      [] level = "active"      -> 1725
      [] level = "very_active" -> 1900
      [] OTHER                 -> NaN

\* return Math.round(bmr * activityMultipliers[profile.physical_activity])
calculateTDEE(p) ==
    MathRound(Mul(SupabaseBmr(p), SupabaseMultiplier(p.physical_activity)), 4000)

----------------------------------------------------------------------------
(* ProfileScreen: the spreads of saveProfile and of the derived-values     *)
(* effect.                                                                 *)

\* { ...p, ...calculateNutritionTargets(p) }
WithTargets(p) ==
    LET t == calculateNutritionTargets(p)
    IN  [p EXCEPT !.dailyCalorieTarget = t.dailyCalorieTarget,
                  !.dailyProteinTarget = t.dailyProteinTarget,
                  !.dailyCarbTarget    = t.dailyCarbTarget,
                  !.dailyFatTarget     = t.dailyFatTarget]

\* The derived-values effect of ProfileScreen, run on profile p: when weight
\* and height are both truthy (non-zero) it sets bmi and the four targets.
DerivedValuesEffect(p) ==
    IF p.weight # 0 /\ p.height # 0
    THEN [WithTargets(p) EXCEPT !.bmi = MathRound(p.weight * 100 * 100 * 10,
                                                   p.height * p.height)]
    ELSE p

----------------------------------------------------------------------------
(* The calculators applied to a drawn profile.                             *)
(* Each call records the callee's locals (bmr, tdee) and what the call     *)
(* ended with: outcome "returned" with a result record.  None of the three *)
(* functions has a throw statement or an operation that can throw on a     *)
(* profile object, so no call ends with outcome "InvalidProfileError".     *)

\* The same profile in the field names of each service's UserProfile type.
AsFoodProfile(p) ==
    [gender |-> p.gender, age |-> p.age, weight |-> p.weight, height |-> p.height,
     physicalActivity |-> p.activityLevel]

AsSupabaseProfile(p) ==
    [gender |-> p.gender, age |-> p.age, weight |-> p.weight, height |-> p.height,
     physical_activity |-> p.activityLevel]

PendingTargets ==
    [outcome |-> "pending", bmr |-> 0, tdee |-> 0,
     result |-> [dailyCalorieTarget |-> 0, dailyProteinTarget |-> 0,
                 dailyCarbTarget |-> 0, dailyFatTarget |-> 0]]

PendingRequirements ==
    [outcome |-> "pending", bmr |-> 0, tdee |-> 0,
     result |-> [calories |-> 0, protein |-> 0, carbs |-> 0, fats |-> 0]]

PendingTdee == [outcome |-> "pending", bmr |-> 0, result |-> 0]

RunNutritionTargets(p) ==
    [outcome |-> "returned", bmr |-> ProfileBmr(p), tdee |-> ProfileTdee(p),
     result |-> calculateNutritionTargets(p)]

RunDailyRequirements(p) ==
    [outcome |-> "returned", bmr |-> FoodBmr(AsFoodProfile(p)),
     tdee |-> FoodTdee(AsFoodProfile(p)),
     result |-> calculateDailyRequirements(AsFoodProfile(p))]

RunTdee(p) ==
    [outcome |-> "returned", bmr |-> SupabaseBmr(AsSupabaseProfile(p)),
     result |-> calculateTDEE(AsSupabaseProfile(p))]

PendingBmi == [outcome |-> "pending", calculateBMI |-> 0, effect |-> 0]

\* Values of the other components while one component is exercised.
\* const mockUserProfile, through createEnhancedProfile: bmi is copied from
\* the mock (24.5) and the four targets are the literals 2200, 90, 275, 73.
createEnhancedProfile(mockProfile) ==
    [gender |-> mockProfile.gender, age |-> mockProfile.age,
     weight |-> mockProfile.weight, height |-> mockProfile.height,
     activityLevel |-> mockProfile.physical_activity,
     bmi |-> mockProfile.bmi,
     dailyCalorieTarget |-> 2200, dailyProteinTarget |-> 90,
     dailyCarbTarget |-> 275, dailyFatTarget |-> 73]

mockUserProfile ==
    [gender |-> "male", age |-> 28, weight |-> 75, height |-> 175,
     physical_activity |-> "moderate", bmi |-> 245, tdee |-> 2200]

\* getUserProfile returns null: there is no row.
NoRow ==
    [exists |-> FALSE, gender |-> "male", age |-> 0, weight |-> 0, height |-> 0,
     physical_activity |-> "sedentary", bmi |-> 0, tdee |-> 0]

Absent == <<>>
NoUpdates ==
    [gender |-> Absent, age |-> Absent, weight |-> Absent, height |-> Absent,
     physical_activity |-> Absent, bmi |-> Absent, tdee |-> Absent]
IdleCall == [pc |-> "idle", updates |-> NoUpdates]

AppIdle ==
    /\ currentScreen = "Dashboard"
    /\ userProfile = createEnhancedProfile(mockUserProfile)
    /\ profile = userProfile
    /\ editedProfile = userProfile
    /\ isEditing = FALSE

DbIdle ==
    /\ row = NoRow
    /\ call = IdleCall

\* MindChatScreenSimple as mounted: the useState initial values.
InitialConversationState == [emotionalTone |-> "neutral", microInsights |-> <<>>]

ChatIdle ==
    /\ conversationCount = 0
    /\ isLoading = FALSE
    /\ isComplete = FALSE
    /\ finalScore = Absent
    /\ conversationState = InitialConversationState
    /\ sending = <<>>
    /\ timers = <<>>
    /\ concluding = <<>>
    /\ path = "none"

\* MindChatScreen as mounted: the useState initial values.
InitialContext ==
    [messageCount |-> 0,
     userResponses |-> <<>>,
     assessmentData |-> [energy |-> 3, emotionalBalance |-> 3, socialConnection |-> 3,
                         stressLevels |-> 3, purposeFulfillment |-> 3]]

NoExchange == [shouldConclude |-> FALSE, userMessages |-> 0]

MindIdle ==
    /\ context = InitialContext
    /\ userMessages = 0
    /\ generating = FALSE
    /\ exchange = NoExchange
    /\ conversationComplete = FALSE
    /\ replyTimers = <<>>
    /\ calculating = <<>>
    /\ mindScore = Absent

\* FoodScannerScreen as mounted: the useState initial values.
FoodIdle ==
    /\ isAnalyzing = FALSE
    /\ analysisResult = Absent
    /\ alert = FALSE
    /\ scanning = "idle"
    /\ requirements = Absent
    /\ modelReply = Absent
    /\ imageAnalysis = Absent

\* The user's data as createUserProfile leaves it, and no call made yet.
GameIdle ==
    /\ total_points = 0
    /\ current_badges = <<>>
    /\ streak_count = 0
    /\ achievements = <<>>
    /\ user_streaks = <<>>
    /\ today = 0
    /\ inFlight = EmptyBag
    /\ started = 0
    /\ awarded = 0
    /\ sequential = TRUE

ExtIdle ==
    /\ ChatIdle
    /\ MindIdle
    /\ FoodIdle
    /\ GameIdle

CalcIdle ==
    /\ input = [gender |-> "male", age |-> 28, weight |-> 75, height |-> 175,
                activityLevel |-> "moderate"]
    /\ nutritionTargets = PendingTargets
    /\ dailyRequirements = PendingRequirements
    /\ tdeeResult = PendingTdee
    /\ previousLevel = "none"
    /\ bmiResult = PendingBmi

InitCalc ==
    /\ input \in [gender : Genders, age : Ages, weight : Weights, height : Heights,
                  activityLevel : Activities]
    /\ nutritionTargets = PendingTargets
    /\ dailyRequirements = PendingRequirements
    /\ tdeeResult = PendingTdee
    /\ previousLevel = "none"
    /\ bmiResult = PendingBmi
    /\ AppIdle
    /\ DbIdle
    /\ ExtIdle

CallCalculateNutritionTargets ==
    /\ nutritionTargets' = RunNutritionTargets(input)
    /\ UNCHANGED <<input, dailyRequirements, tdeeResult, previousLevel, bmiResult>>
    /\ UNCHANGED <<appVars, dbVars, extVars>>

CallCalculateDailyRequirements ==
    /\ dailyRequirements' = RunDailyRequirements(input)
    /\ UNCHANGED <<input, nutritionTargets, tdeeResult, previousLevel, bmiResult>>
    /\ UNCHANGED <<appVars, dbVars, extVars>>

CallCalculateTDEE ==
    /\ tdeeResult' = RunTdee(input)
    /\ UNCHANGED <<input, nutritionTargets, dailyRequirements, previousLevel, bmiResult>>
    /\ UNCHANGED <<appVars, dbVars, extVars>>

\* calculateBMI(weight, height) of the service, and the bmi that the profile
\* screen's effect sets on a profile with these inputs (the effect leaves
\* the bmi field alone, here -1, when weight or height is falsy).
CallCalculateBMI ==
    /\ input.height # 0
    /\ bmiResult' =
           [outcome |-> "returned",
            calculateBMI |-> calculateBMI(input.weight, input.height),
            effect |-> DerivedValuesEffect(
                [gender |-> input.gender, age |-> input.age,
                 weight |-> input.weight, height |-> input.height,
                 activityLevel |-> input.activityLevel, bmi |-> -1,
                 dailyCalorieTarget |-> 0, dailyProteinTarget |-> 0,
                 dailyCarbTarget |-> 0, dailyFatTarget |-> 0]).bmi]
    /\ UNCHANGED <<input, nutritionTargets, dailyRequirements, tdeeResult, previousLevel>>
    /\ UNCHANGED <<appVars, dbVars, extVars>>

\* The activity level of the profile moves to another level and every
\* calculator that has run is run again on the changed profile.
ChangeActivityLevel ==
    \E level \in ActivityLevelSet :
        /\ input.activityLevel \in ActivityLevelSet
        /\ level # input.activityLevel
        /\ input' = [input EXCEPT !.activityLevel = level]
        /\ previousLevel' = input.activityLevel
        /\ UNCHANGED bmiResult
        /\ nutritionTargets' =
               IF nutritionTargets.outcome = "pending" THEN nutritionTargets
               ELSE RunNutritionTargets(input')
        /\ dailyRequirements' =
               IF dailyRequirements.outcome = "pending" THEN dailyRequirements
               ELSE RunDailyRequirements(input')
        /\ tdeeResult' =
               IF tdeeResult.outcome = "pending" THEN tdeeResult
               ELSE RunTdee(input')
        /\ UNCHANGED <<appVars, dbVars, extVars>>

NextCalc ==
    \/ CallCalculateBMI
    \/ CallCalculateNutritionTargets
    \/ CallCalculateDailyRequirements
    \/ CallCalculateTDEE
    \/ ChangeActivityLevel

SpecCalc == InitCalc /\ [][NextCalc]_vars

----------------------------------------------------------------------------
(* App.tsx and ProfileScreen.                                              *)
(* A profile here is the part of UserProfile the calculator reads and      *)
(* writes: gender, age, weight, height, activityLevel and the calculated   *)
(* fields bmi (in tenths) and the four daily targets.                      *)

\* The dependency list of that effect.
EffectDeps(p) == <<p.weight, p.height, p.age, p.gender, p.activityLevel>>

Init ==
    /\ currentScreen = "Dashboard"
    /\ userProfile = createEnhancedProfile(mockUserProfile)
    \* ProfileScreen is not mounted: its state is what useState(userProfile)
    \* gives it at the next mount.
    /\ profile = userProfile
    /\ editedProfile = userProfile
    /\ isEditing = FALSE
    /\ CalcIdle
    /\ DbIdle
    /\ ExtIdle

\* setCurrentScreen(screen) from the tab bar, navigation.navigate or
\* navigation.goBack: any screen but Profile.  Leaving Profile unmounts
\* ProfileScreen.
SetCurrentScreen(screen) ==
    /\ screen \in {"Dashboard", "FoodScanner", "MindChat"}
    /\ screen # currentScreen
    /\ currentScreen' = screen
    /\ profile' = userProfile
    /\ editedProfile' = userProfile
    /\ isEditing' = FALSE
    /\ UNCHANGED userProfile
    /\ UNCHANGED <<calcVars, dbVars, extVars>>

\* onNavigateToProfile from the dashboard: ProfileScreen mounts with
\* profile = editedProfile = userProfile, and its two effects run: the first
\* sets both to userProfile again, the second sets the derived values.
NavigateToProfile ==
    /\ currentScreen = "Dashboard"
    /\ currentScreen' = "Profile"
    /\ profile' = DerivedValuesEffect(userProfile)
    /\ editedProfile' = userProfile
    /\ isEditing' = FALSE
    /\ UNCHANGED userProfile
    /\ UNCHANGED <<calcVars, dbVars, extVars>>

\* The header button while not editing.
StartEditing ==
    /\ currentScreen = "Profile"
    /\ ~isEditing
    /\ isEditing' = TRUE
    /\ editedProfile' = profile
    /\ UNCHANGED <<currentScreen, userProfile, profile>>
    /\ UNCHANGED <<calcVars, dbVars, extVars>>

\* The editable fields and pickers, shown while editing.
EditField ==
    /\ currentScreen = "Profile"
    /\ isEditing
    /\ \/ \E v \in EditAges : editedProfile' = [editedProfile EXCEPT !.age = v]
       \/ \E v \in EditWeights : editedProfile' = [editedProfile EXCEPT !.weight = v]
       \/ \E v \in EditHeights : editedProfile' = [editedProfile EXCEPT !.height = v]
       \/ \E v \in Genders : editedProfile' = [editedProfile EXCEPT !.gender = v]
       \/ \E v \in ActivityLevelSet :
              editedProfile' = [editedProfile EXCEPT !.activityLevel = v]
    /\ editedProfile' # editedProfile
    /\ UNCHANGED <<currentScreen, userProfile, profile, isEditing>>
    /\ UNCHANGED <<calcVars, dbVars, extVars>>

\* What saveProfile hands to onProfileUpdate: the edited profile with the
\* four targets recalculated (bmi is the edited profile's).
updatedProfile(edited) == WithTargets(edited)

\* The header button while editing: saveProfile, App.handleProfileUpdate,
\* and the effects of the render that follows (the first effect because
\* userProfile is a new object, the second when one of its dependencies
\* differs from the previous render's).
SaveProfile ==
    /\ currentScreen = "Profile"
    /\ isEditing
    /\ userProfile' = updatedProfile(editedProfile)
    /\ isEditing' = FALSE
    /\ editedProfile' = userProfile'
    /\ profile' = IF EffectDeps(userProfile') # EffectDeps(profile)
                  THEN DerivedValuesEffect(userProfile')
                  ELSE userProfile'
    /\ UNCHANGED currentScreen
    /\ UNCHANGED <<calcVars, dbVars, extVars>>

Next ==
    \/ \E screen \in {"Dashboard", "FoodScanner", "MindChat"} : SetCurrentScreen(screen)
    \/ NavigateToProfile
    \/ StartEditing
    \/ EditField
    \/ SaveProfile

Spec == Init /\ [][Next]_vars

----------------------------------------------------------------------------
(* SupabaseService: createUserProfile and updateUserProfile on the user's  *)
(* row of user_profiles.  updates is a Partial<UserProfile>: a field is    *)
(* Absent or holds <<value>>.                                              *)

Present(S) == {<<v>> : v \in S}
Optional(S) == {Absent} \cup Present(S)

\* JavaScript truthiness of an optional number and of an optional string.
TruthyNumber(x) == x # Absent /\ x[1] # 0
TruthyString(x) == x # Absent

\* { ...current, ...updates }
Merged(current, updates) ==
    [exists |-> current.exists,
     gender |-> IF updates.gender = Absent THEN current.gender ELSE updates.gender[1],
     age    |-> IF updates.age = Absent THEN current.age ELSE updates.age[1],
     weight |-> IF updates.weight = Absent THEN current.weight ELSE updates.weight[1],
     height |-> IF updates.height = Absent THEN current.height ELSE updates.height[1],
     physical_activity |->
         IF updates.physical_activity = Absent THEN current.physical_activity
         ELSE updates.physical_activity[1],
     bmi    |-> IF updates.bmi = Absent THEN current.bmi ELSE updates.bmi[1],
     tdee   |-> IF updates.tdee = Absent THEN current.tdee ELSE updates.tdee[1]]

\* updateUserProfile up to its update request: bmi and tdee are recalculated
\* when updates.weight, updates.height or updates.physical_activity is truthy
\* and getUserProfile returns a profile.
\* The fields an updates object holds.
UpdatedFields(updates) == {f \in DOMAIN updates : updates[f] # Absent}

Recalculated(current, updates) ==
    IF /\ \/ TruthyNumber(updates.weight)
          \/ TruthyNumber(updates.height)
          \/ TruthyString(updates.physical_activity)
       /\ current.exists
    THEN LET withBmi ==
                 [updates EXCEPT !.bmi = <<calculateBMI(
                     IF TruthyNumber(updates.weight) THEN updates.weight[1]
                     ELSE current.weight,
                     IF TruthyNumber(updates.height) THEN updates.height[1]
                     ELSE current.height)>>]
         IN  [withBmi EXCEPT !.tdee = <<calculateTDEE(Merged(current, withBmi))>>]
    ELSE updates

InitDb ==
    /\ row = NoRow
    /\ call = IdleCall
    /\ CalcIdle
    /\ AppIdle
    /\ ExtIdle

\* createUserProfile(profile): the row is inserted with bmi and tdee
\* calculated from the profile.
CreateUserProfile ==
    /\ ~row.exists
    /\ \E p \in [gender : DbGenders, age : DbAges, weight : DbWeights,
                 height : DbHeights, physical_activity : ActivityLevelSet] :
           row' = [exists |-> TRUE, gender |-> p.gender, age |-> p.age,
                   weight |-> p.weight, height |-> p.height,
                   physical_activity |-> p.physical_activity,
                   bmi |-> calculateBMI(p.weight, p.height),
                   tdee |-> calculateTDEE(p)]
    /\ UNCHANGED call
    /\ UNCHANGED <<calcVars, appVars, extVars>>

\* updateUserProfile(userId, updates), to the point where the update request
\* is sent.
BeginUpdateUserProfile ==
    /\ call.pc = "idle"
    /\ \E u \in [gender : Optional(DbGenders), age : Optional(DbAges),
                 weight : Optional(DbWeights \cup {0}), height : Optional(DbHeights),
                 physical_activity : Optional(ActivityLevelSet),
                 bmi : {Absent}, tdee : {Absent}] :
           /\ Cardinality(UpdatedFields(u)) <= MaxUpdatedFields
           /\ call' = [pc |-> "update", updates |-> Recalculated(row, u)]
    /\ UNCHANGED row
    /\ UNCHANGED <<calcVars, appVars, extVars>>

\* The update request: .update({...updates}).eq('id', userId).select().single()
\* changes the row, or fails when there is none.
FinishUpdateUserProfile ==
    /\ call.pc = "update"
    /\ row' = IF row.exists THEN Merged(row, call.updates) ELSE row
    /\ call' = IdleCall
    /\ UNCHANGED <<calcVars, appVars, extVars>>

NextDb ==
    \/ CreateUserProfile
    \/ BeginUpdateUserProfile
    \/ FinishUpdateUserProfile

SpecDb == InitDb /\ [][NextDb]_vars

----------------------------------------------------------------------------
(* MindChatScreenSimple: the wellness chat.  handleSend and                *)
(* concludeConversation are async: each is one step up to its first await  *)
(* and one step when the model's replies arrive; setTimeout callbacks are  *)
(* steps of their own.  A callback reads the component state of the render *)
(* that created it, so it carries the emotional tone of that render.       *)

MAX_CONVERSATIONS == 15

\* The user sends at most MaxSends messages in a run, and at most
\* MaxPending calls or timers are outstanding at once.
MaxSends   == 16
MaxPending == 2

\* What the emotional-analysis call can do: throw, return text that is not
\* JSON, or return JSON with or without an emotionalTone.
AnalysisReplies ==
    {[kind |-> "throws", emotionalTone |-> Absent],
     [kind |-> "unparsable", emotionalTone |-> Absent],
     [kind |-> "parsed", emotionalTone |-> Absent]}
    \cup {[kind |-> "parsed", emotionalTone |-> <<t>>] : t \in {"positive", "stressed"}}

\* What the next-question call can do.
QuestionReplies == {"throws", "CONCLUDE_ASSESSMENT:", "question"}

\* A JSON value of the final analysis: nothing, a number, or a string.
Undefined == [type |-> "undefined", number |-> 0, text |-> ""]
Number(n) == [type |-> "number", number |-> n, text |-> ""]
String(t) == [type |-> "string", number |-> 0, text |-> t]

OverallScores ==
    {Undefined, String("high")} \cup {Number(n) : n \in {-20, 0, 150}}

MicroTips == {Absent, <<<<>>>>}

\* What the final-analysis call can do.
ConclusionReplies ==
    {[kind |-> "throws", overallScore |-> Undefined, microTips |-> Absent],
     [kind |-> "unparsable", overallScore |-> Undefined, microTips |-> Absent]}
    \cup [kind : {"parsed"}, overallScore : OverallScores, microTips : MicroTips]

\* JavaScript's conversion of a JSON value to a number.
ToNumber(v) ==
    CASE v.type = "number" -> v.number
      [] v.type = "string" /\ v.text = "" -> 0
      [] OTHER -> NaN

\* JavaScript's truthiness of a JSON value.
Truthy(v) ==
    CASE v.type = "number" -> v.number # 0
      [] v.type = "string" -> v.text # ""
      [] OTHER -> FALSE

\* Math.min and Math.max return NaN when an argument converts to NaN.
MathMin(a, b) == IF a = NaN \/ b = NaN THEN NaN ELSE IF a < b THEN a ELSE b
MathMax(a, b) == IF a = NaN \/ b = NaN THEN NaN ELSE IF a > b THEN a ELSE b

\* Math.max(0, Math.min(100, analysis.overallScore || 65))
calculatedScore(overallScore) ==
    MathMax(0, MathMin(100, IF Truthy(overallScore) THEN ToNumber(overallScore) ELSE 65))

fallbackScore(emotionalTone) ==
    IF emotionalTone = "positive" THEN 75
    ELSE IF emotionalTone = "stressed" THEN 45 ELSE 60

Remove(seq, i) == [j \in 1..(Len(seq) - 1) |-> IF j < i THEN seq[j] ELSE seq[j + 1]]

InitChat ==
    /\ ChatIdle
    /\ MindIdle
    /\ FoodIdle
    /\ CalcIdle
    /\ AppIdle
    /\ DbIdle
    /\ GameIdle

\* The send button is disabled, and the input not editable, while isLoading.
HandleSend ==
    /\ ~isComplete
    /\ ~isLoading
    /\ conversationCount < MaxSends
    /\ Len(sending) + Len(timers) + Len(concluding) < MaxPending
    /\ isLoading' = TRUE
    /\ conversationCount' = conversationCount + 1
    /\ sending' = Append(sending, [newCount |-> conversationCount + 1,
                                   emotionalTone |-> conversationState.emotionalTone])
    /\ UNCHANGED <<isComplete, finalScore, conversationState, timers, concluding, path>>
    /\ UNCHANGED <<calcVars, appVars, dbVars, mindVars, foodVars, gameVars>>

\* The rest of handleSend: the two calls have returned or thrown.
FinishSend ==
    \E i \in 1..Len(sending), analysis \in AnalysisReplies, question \in QuestionReplies :
        LET send == sending[i]
            thrown == analysis.kind = "throws" \/ question = "throws"
        IN  /\ sending' = Remove(sending, i)
            /\ conversationState' =
                   IF analysis.kind = "parsed" /\ analysis.emotionalTone # Absent
                   THEN [conversationState EXCEPT !.emotionalTone = analysis.emotionalTone[1]]
                   ELSE conversationState
            /\ timers' =
                   IF thrown THEN timers
                   ELSE IF question = "CONCLUDE_ASSESSMENT:"
                        THEN Append(timers, [callback |-> "concludeConversation",
                                             emotionalTone |-> send.emotionalTone])
                   ELSE IF send.newCount >= MAX_CONVERSATIONS
                        THEN Append(timers, [callback |-> "conclusionMessage",
                                             emotionalTone |-> send.emotionalTone])
                   ELSE timers
            /\ isLoading' = FALSE
            /\ UNCHANGED <<conversationCount, isComplete, finalScore, concluding, path>>
            /\ UNCHANGED <<calcVars, appVars, dbVars, mindVars, foodVars, gameVars>>

\* A timer fires: the conclusion message is shown and the second timer set,
\* or concludeConversation runs up to its await.
TimerFires ==
    \E i \in 1..Len(timers) :
        /\ IF timers[i].callback = "conclusionMessage"
           THEN /\ timers' = Append(Remove(timers, i),
                                    [callback |-> "concludeConversation",
                                     emotionalTone |-> timers[i].emotionalTone])
                /\ UNCHANGED <<isComplete, isLoading, concluding>>
           ELSE /\ timers' = Remove(timers, i)
                /\ isComplete' = TRUE
                /\ isLoading' = TRUE
                /\ concluding' = Append(concluding, timers[i].emotionalTone)
        /\ UNCHANGED <<conversationCount, finalScore, conversationState, sending, path>>
        /\ UNCHANGED <<calcVars, appVars, dbVars, mindVars, foodVars, gameVars>>

\* The rest of concludeConversation: the final-analysis call has returned
\* or thrown.
FinishConclude ==
    \E i \in 1..Len(concluding), reply \in ConclusionReplies :
        /\ concluding' = Remove(concluding, i)
        /\ path' = reply.kind
        /\ CASE reply.kind = "parsed" ->
                  /\ finalScore' = <<calculatedScore(reply.overallScore)>>
                  /\ conversationState' =
                         [conversationState EXCEPT !.microInsights =
                             IF reply.microTips # Absent THEN reply.microTips[1]
                             ELSE <<"Take a mindful walk", "Connect with a friend",
                                    "Practice deep breathing">>]
             [] reply.kind = "unparsable" ->
                  /\ finalScore' = <<fallbackScore(concluding[i])>>
                  /\ conversationState' =
                         [conversationState EXCEPT !.microInsights =
                             <<"Take a mindful break", "Connect with someone you trust",
                               "Practice gratitude">>]
             [] OTHER ->
                  /\ finalScore' = <<60>>
                  /\ conversationState' =
                         [conversationState EXCEPT !.microInsights =
                             <<"Take time for yourself", "Stay connected",
                               "Practice self-care">>]
        /\ isLoading' = FALSE
        /\ UNCHANGED <<conversationCount, isComplete, sending, timers>>
        /\ UNCHANGED <<calcVars, appVars, dbVars, mindVars, foodVars, gameVars>>

\* "Take Another Check-in" on the score screen, shown while isComplete.
Restart ==
    /\ isComplete
    /\ conversationCount' = 0
    /\ isComplete' = FALSE
    /\ finalScore' = Absent
    /\ conversationState' = [conversationState EXCEPT !.microInsights = <<>>]
    /\ UNCHANGED <<isLoading, sending, timers, concluding, path>>
    /\ UNCHANGED <<calcVars, appVars, dbVars, mindVars, foodVars, gameVars>>

NextChat ==
    \/ HandleSend
    \/ FinishSend
    \/ TimerFires
    \/ FinishConclude
    \/ Restart

SpecChat == InitChat /\ [][NextChat]_vars

----------------------------------------------------------------------------
(* MindChatScreen and MindScoreChatService: the 3-5 exchange assessment.   *)
(* generateNextQuestion receives the screen's context object and changes   *)
(* it in place; the screen then replaces it through setContext.  One       *)
(* generateNextQuestion call is in flight at a time.                       *)

maxExchanges == 5

\* The user sends at most MaxMessages messages in a run, and sends none
\* while more than MaxWaiting timers are pending.
MaxMessages == 6
MaxWaiting  == 1

\* silentAnalysis of a parsed reply: absent fields are <<>>.
NoAnalysis ==
    [energy |-> Absent, emotionalBalance |-> Absent, socialConnection |-> Absent,
     stressLevels |-> Absent, purposeFulfillment |-> Absent]
SilentAnalyses ==
    {NoAnalysis,
     [energy |-> <<5>>, emotionalBalance |-> <<4>>, socialConnection |-> <<4>>,
      stressLevels |-> <<1>>, purposeFulfillment |-> <<5>>],
     [NoAnalysis EXCEPT !.energy = <<7>>]}

\* What the model's reply to generateNextQuestion can be: the call throws
\* or returns no JSON; JSON without silentAnalysis; or JSON with both
\* fields, shouldConclude being whatever the model wrote.
QuestionResults ==
    {[kind |-> "throws", shouldConclude |-> FALSE, silentAnalysis |-> NoAnalysis],
     [kind |-> "noAnalysis", shouldConclude |-> FALSE, silentAnalysis |-> NoAnalysis]}
    \cup [kind : {"parsed"}, shouldConclude : BOOLEAN, silentAnalysis : SilentAnalyses]

Coalesce(update, current) == IF update # Absent THEN update[1] ELSE current

mergeAssessmentData(current, update) ==
    [energy |-> Coalesce(update.energy, current.energy),
     emotionalBalance |-> Coalesce(update.emotionalBalance, current.emotionalBalance),
     socialConnection |-> Coalesce(update.socialConnection, current.socialConnection),
     stressLevels |-> Coalesce(update.stressLevels, current.stressLevels),
     purposeFulfillment |-> Coalesce(update.purposeFulfillment, current.purposeFulfillment)]

\* generateNextQuestion(context, userMessage), the message being its number
\* in the session: the context object as the
\* call leaves it, and the fields of its result.
generateNextQuestion(ctx, userMessage, result) ==
    CASE result.kind = "throws" ->
           [context |-> ctx,
            shouldConclude |-> ctx.messageCount >= maxExchanges,
            analysisUpdate |-> NoAnalysis]
      [] result.kind = "noAnalysis" ->
           \* mergeAssessmentData(current, undefined) throws after messageCount++
           [context |-> [ctx EXCEPT !.messageCount = @ + 1,
                                    !.userResponses = Append(@, userMessage)],
            shouldConclude |-> ctx.messageCount + 1 >= maxExchanges,
            analysisUpdate |-> NoAnalysis]
      [] OTHER ->
           [context |-> [messageCount |-> ctx.messageCount + 1,
                         userResponses |-> Append(ctx.userResponses, userMessage),
                         assessmentData |->
                             mergeAssessmentData(ctx.assessmentData, result.silentAnalysis)],
            shouldConclude |->
                result.shouldConclude \/ ctx.messageCount + 1 >= maxExchanges,
            analysisUpdate |-> result.silentAnalysis]

\* The MindScoreMetrics JSON of a parsed reply to calculateMindScore.
ScoreValues == {Undefined, Number(150), String("high")}
ScoreResults ==
    {[kind |-> "throws", overallScore |-> Undefined, dimensionScore |-> Undefined]}
    \cup [kind : {"parsed"}, overallScore : ScoreValues, dimensionScore : ScoreValues]

\* Math.max(0, Math.min(100, value || 50))
Sanitized(value) ==
    MathMax(0, MathMin(100, IF Truthy(value) THEN ToNumber(value) ELSE 50))

validateMindScore(score) ==
    [overallScore |-> Sanitized(score.overallScore),
     vitality |-> Sanitized(score.dimensionScore),
     emotional |-> Sanitized(score.dimensionScore),
     social |-> Sanitized(score.dimensionScore),
     stress |-> Sanitized(score.dimensionScore),
     purpose |-> Sanitized(score.dimensionScore),
     path |-> "validated"]

calculateFallbackMindScore(assessmentData) ==
    LET sum == assessmentData.energy + assessmentData.emotionalBalance
               + assessmentData.socialConnection + (6 - assessmentData.stressLevels)
               + assessmentData.purposeFulfillment
    IN  [overallScore |-> MathRound(sum * 100, 25),
         vitality |-> MathRound(assessmentData.energy * 100, 5),
         emotional |-> MathRound(assessmentData.emotionalBalance * 100, 5),
         social |-> MathRound(assessmentData.socialConnection * 100, 5),
         stress |-> MathRound((6 - assessmentData.stressLevels) * 100, 5),
         purpose |-> MathRound(assessmentData.purposeFulfillment * 100, 5),
         path |-> "fallback"]

calculateMindScore(finalAssessmentData, result) ==
    IF result.kind = "parsed"
    THEN validateMindScore(result)
    ELSE calculateFallbackMindScore(finalAssessmentData)

InitMind ==
    /\ MindIdle
    /\ ChatIdle
    /\ FoodIdle
    /\ CalcIdle
    /\ AppIdle
    /\ DbIdle
    /\ GameIdle

\* handleSend up to its await.
SendMessage ==
    /\ ~conversationComplete
    /\ ~generating
    /\ userMessages < MaxMessages
    /\ Len(replyTimers) + Len(calculating) <= MaxWaiting
    /\ userMessages' = userMessages + 1
    /\ generating' = TRUE
    /\ UNCHANGED <<context, exchange, conversationComplete, replyTimers, calculating,
                   mindScore>>
    /\ UNCHANGED <<calcVars, appVars, dbVars, chatVars, foodVars, gameVars>>

\* generateNextQuestion returns; handleSend updates the context with
\* setContext and sets the timer that shows the reply.
ReceiveNextQuestion ==
    \E result \in QuestionResults :
        LET userMessage == userMessages
            returned == generateNextQuestion(context, userMessage, result)
            prev == returned.context
        IN  /\ generating
            /\ generating' = FALSE
            /\ context' =
                   [messageCount |-> prev.messageCount + 1,
                    userResponses |-> Append(prev.userResponses, userMessage),
                    assessmentData |->
                        mergeAssessmentData(prev.assessmentData, returned.analysisUpdate)]
            /\ exchange' = [shouldConclude |-> returned.shouldConclude,
                            userMessages |-> userMessages]
            /\ replyTimers' = Append(replyTimers,
                                     [shouldConclude |-> returned.shouldConclude,
                                      assessmentData |-> prev.assessmentData])
            /\ UNCHANGED <<userMessages, conversationComplete, calculating, mindScore>>
            /\ UNCHANGED <<calcVars, appVars, dbVars, chatVars, foodVars, gameVars>>

\* The 1500 ms timer: the reply is shown and, if shouldConclude,
\* concludeConversation runs up to its timer.
ShowReply ==
    /\ replyTimers # <<>>
    /\ replyTimers' = Tail(replyTimers)
    /\ IF Head(replyTimers).shouldConclude
       THEN /\ conversationComplete' = TRUE
            /\ calculating' = Append(calculating, Head(replyTimers).assessmentData)
       ELSE UNCHANGED <<conversationComplete, calculating>>
    /\ UNCHANGED <<context, userMessages, generating, exchange, mindScore>>
    /\ UNCHANGED <<calcVars, appVars, dbVars, chatVars, foodVars, gameVars>>

\* The 2000 ms timer of concludeConversation: calculateMindScore and
\* setMindScore.
SetMindScore ==
    \E result \in ScoreResults :
        /\ calculating # <<>>
        /\ calculating' = Tail(calculating)
        /\ mindScore' = <<calculateMindScore(Head(calculating), result)>>
        /\ UNCHANGED <<context, userMessages, generating, exchange, conversationComplete,
                       replyTimers>>
        /\ UNCHANGED <<calcVars, appVars, dbVars, chatVars, foodVars, gameVars>>

NextMind ==
    \/ SendMessage
    \/ ReceiveNextQuestion
    \/ ShowReply
    \/ SetMindScore

SpecMind == InitMind /\ [][NextMind]_vars

----------------------------------------------------------------------------
(* FoodScannerScreen.analyzeFood and the FoodRecognitionService pipeline:  *)
(* analyzeFoodImage (read the image, ask the model, parse, sanitize) and   *)
(* refineNutritionData (daily requirements of the transformed profile).    *)

\* foodItems of a reply holds at most MaxItems items.
MaxItems == 2

\* JavaScript's a || b, a + b and Math.abs(a - b) on JSON values.
Or(a, b) == IF Truthy(a) THEN a ELSE b
Str(v) == IF v.type = "number" THEN ToString(v.number) ELSE v.text
Plus(a, b) ==
    IF a.type = "number" /\ b.type = "number"
    THEN Number(a.number + b.number)
    ELSE String(Str(a) \o Str(b))
AbsDifference(a, b) ==
    LET x == ToNumber(a)
        y == ToNumber(b)
    IN  IF x = NaN \/ y = NaN THEN NaN ELSE IF x >= y THEN x - y ELSE y - x

Macros(protein, carbs, fats, fiber) ==
    [protein |-> protein, carbs |-> carbs, fats |-> fats, fiber |-> fiber]

\* Items the model may report: complete ones, one without calories and
\* macros, and one whose protein is written as a string.
ReportedItems ==
    {[name |-> "Rice", calories |-> Number(200),
      macros |-> <<Macros(Number(5), Number(20), Number(8), Number(2))>>],
     [name |-> "Dal", calories |-> Number(320),
      macros |-> <<Macros(Number(12), Number(40), Number(10), Number(4))>>],
     [name |-> "Chutney", calories |-> Undefined, macros |-> Absent],
     [name |-> "Paneer", calories |-> Number(150),
      macros |-> <<Macros(String("5g"), Number(20), Number(8), Number(2))>>]}

ItemLists == UNION {[1..n -> ReportedItems] : n \in 0..MaxItems}

\* The analysis JSON of a parsed reply.
ParsedAnalyses ==
    [foodItems : ItemLists,
     totalCalories : {Undefined, Number(230), Number(900)},
     healthScore : {Undefined, Number(0), Number(80), Number(150), String("high")},
     confidenceLevel : {Undefined, Number(-5)}]

\* The fallback response of analyzeFoodImage when parsing fails.
UnknownFood ==
    [foodItems |-> <<[name |-> "Unknown Food", calories |-> Number(200),
                      macros |-> <<Macros(Number(5), Number(20), Number(8), Number(2))>>]>>,
     totalCalories |-> Number(200),
     healthScore |-> Number(50),
     confidenceLevel |-> Number(50)]

RECURSIVE recalculatedCalories(_)
recalculatedCalories(items) ==
    IF items = <<>> THEN Number(0)
    ELSE Plus(recalculatedCalories(SubSeq(items, 1, Len(items) - 1)),
              Or(items[Len(items)].calories, Number(0)))

\* item.macros?.field || 0
MacroOf(item, field) ==
    IF item.macros = Absent THEN Number(0) ELSE Or(item.macros[1][field], Number(0))

RECURSIVE recalculatedMacro(_, _)
recalculatedMacro(items, field) ==
    IF items = <<>> THEN Number(0)
    ELSE Plus(recalculatedMacro(SubSeq(items, 1, Len(items) - 1), field),
              MacroOf(items[Len(items)], field))

validateAndSanitizeAnalysis(analysis) ==
    LET totalCalories == Or(analysis.totalCalories, Number(0))
        recalculated == recalculatedCalories(analysis.foodItems)
        difference == AbsDifference(totalCalories, recalculated)
    IN  [foodItems |-> analysis.foodItems,
         totalCalories |-> IF difference # NaN /\ difference > 50
                           THEN recalculated ELSE totalCalories,
         totalMacros |-> Macros(recalculatedMacro(analysis.foodItems, "protein"),
                                recalculatedMacro(analysis.foodItems, "carbs"),
                                recalculatedMacro(analysis.foodItems, "fats"),
                                recalculatedMacro(analysis.foodItems, "fiber")),
         healthScore |-> Sanitized(analysis.healthScore),
         confidenceLevel |-> Sanitized(analysis.confidenceLevel)]

\* What analyzeFoodImage can meet: the image cannot be read, the model call
\* throws, the reply is not JSON, or it is JSON.
ImageOutcomes ==
    {[kind |-> k, analysis |-> UnknownFood] :
        k \in {"imageUnreadable", "callFails", "unparsable"}}
    \cup [kind : {"parsed"}, analysis : ParsedAnalyses]

\* analyzeFoodImage: <<>> when it throws 'Food analysis failed'.
analyzeFoodImage(outcome) ==
    CASE outcome.kind \in {"imageUnreadable", "callFails"} -> Absent
      [] outcome.kind = "unparsable" -> <<validateAndSanitizeAnalysis(UnknownFood)>>
      [] OTHER -> <<validateAndSanitizeAnalysis(outcome.analysis)>>

\* The profile analyzeFood hands to the service: physical_activity is read
\* from the userProfile prop, 'moderate' when it is missing.
transformedProfile(p) ==
    [gender |-> p.gender, age |-> p.age, weight |-> p.weight, height |-> p.height,
     physicalActivity |-> IF "physical_activity" \in DOMAIN p
                          THEN p["physical_activity"] ELSE "moderate"]

\* The profiles App can hold when the scanner is opened: the initial one,
\* and those saved from the profile screen with another gender or level.
HeldProfiles ==
    {createEnhancedProfile(mockUserProfile)}
    \cup {updatedProfile([createEnhancedProfile(mockUserProfile)
                             EXCEPT !.gender = g, !.activityLevel = a]) :
            g \in Genders, a \in ActivityLevelSet}

InitFood ==
    /\ currentScreen = "FoodScanner"
    /\ userProfile \in HeldProfiles
    /\ profile = userProfile
    /\ editedProfile = userProfile
    /\ isEditing = FALSE
    /\ FoodIdle
    /\ ChatIdle
    /\ MindIdle
    /\ CalcIdle
    /\ DbIdle
    /\ GameIdle

\* takePicture / pickImage: analyzeFood up to its first await.
StartAnalyzeFood ==
    /\ ~isAnalyzing
    /\ isAnalyzing' = TRUE
    /\ analysisResult' = Absent
    /\ scanning' = "analyzing"
    /\ modelReply' = Absent
    /\ imageAnalysis' = Absent
    /\ UNCHANGED <<alert, requirements>>
    /\ UNCHANGED <<calcVars, appVars, dbVars, chatVars, mindVars, gameVars>>

\* calorieImpact as validateAndSanitizeAnalysis and the failure branch of
\* refineNutritionData set it.
NeutralImpact ==
    [percentageOfDailyGoal |-> 0, alignmentWithTargets |-> "optimal",
     macroBalance |-> "good"]

\* JSON objects the model may return as refinement: the fields asked for,
\* alone or together with fields of the analysis itself.
Personalisation ==
    [calorieImpact |-> [percentageOfDailyGoal |-> 35, alignmentWithTargets |-> "over",
                        macroBalance |-> "poor"],
     userSpecificRecommendations |-> <<"Add a salad">>]
RefinementObjects ==
    {Personalisation,
     Personalisation @@ [healthScore |-> 10],
     Personalisation @@ [foodItems |-> <<>>, totalCalories |-> Number(0)]}

\* What the refinement call can do: throw or return no JSON, or return a
\* JSON object.
RefinementOutcomes ==
    {[kind |-> "fails", refinement |-> Personalisation]}
    \cup [kind : {"parsed"}, refinement : RefinementObjects]

\* refineNutritionData(initialAnalysis, userProfile): the initial analysis
\* (whose calorieImpact the sanitizer set) under the spread of the
\* refinement, or with the defaults of the catch block.
refineNutritionData(initial, outcome) ==
    IF outcome.kind = "parsed"
    THEN outcome.refinement
         @@ initial
         @@ [calorieImpact |-> NeutralImpact, userSpecificRecommendations |-> <<>>]
    ELSE [calorieImpact |-> NeutralImpact, userSpecificRecommendations |-> <<>>]
         @@ initial

\* The rest of analyzeFood: foodService.analyzeFood returns or throws.
FinishAnalyzeFood ==
    \E outcome \in ImageOutcomes, refined \in RefinementOutcomes :
        LET initialAnalysis == analyzeFoodImage(outcome)
            transformed == transformedProfile(userProfile)
        IN  /\ scanning = "analyzing"
            /\ scanning' = "done"
            /\ imageAnalysis' = initialAnalysis
            /\ IF initialAnalysis = Absent
               THEN /\ alert' = TRUE
                    /\ modelReply' = <<[image |-> outcome, refined |-> "none"]>>
                    /\ UNCHANGED <<analysisResult, requirements>>
               ELSE /\ analysisResult' =
                           <<refineNutritionData(initialAnalysis[1], refined)>>
                    /\ modelReply' = <<[image |-> outcome, refined |-> refined.kind]>>
                    /\ requirements' =
                           <<[physicalActivity |-> transformed.physicalActivity,
                              calories |-> calculateDailyRequirements(transformed).calories]>>
                    /\ UNCHANGED alert
            /\ UNCHANGED isAnalyzing
            /\ UNCHANGED <<calcVars, appVars, dbVars, chatVars, mindVars, gameVars>>

\* OK on the 'Analysis Failed' alert.
DismissAlert ==
    /\ alert
    /\ alert' = FALSE
    /\ isAnalyzing' = FALSE
    /\ UNCHANGED <<analysisResult, scanning, requirements, modelReply, imageAnalysis>>
    /\ UNCHANGED <<calcVars, appVars, dbVars, chatVars, mindVars, gameVars>>

\* 'Scan Another' under the results.
ScanAnother ==
    /\ analysisResult # Absent
    /\ analysisResult' = Absent
    /\ isAnalyzing' = FALSE
    /\ scanning' = "idle"
    /\ modelReply' = Absent
    /\ imageAnalysis' = Absent
    /\ UNCHANGED <<alert, requirements>>
    /\ UNCHANGED <<calcVars, appVars, dbVars, chatVars, mindVars, gameVars>>

NextFood ==
    \/ StartAnalyzeFood
    \/ FinishAnalyzeFood
    \/ DismissAlert
    \/ ScanAnother

SpecFood == InitFood /\ [][NextFood]_vars

----------------------------------------------------------------------------
(* SupabaseService: points, streaks and badges.  Every await of a call is  *)
(* a step of its own, so that the calls in flight interleave at the        *)
(* database.                                                               *)

MaxDay      == 3
MaxCalls    == 3
MaxInFlight == 2

\* The pointsEarned of the saves and the pointsValue of a badge.
PointsEarned == {10}
PointsValue  == {50}
BadgeNames   == {"First Scan"}
StreakTypes  == {"food_logging", "mind_check"}

\* The calls in flight once c has returned, or has gone on as next.
Returned(c) == inFlight (-) SetToBag({c})
Continued(c, next) == (inFlight (-) SetToBag({c})) (+) SetToBag({next})

NoLocals == [today |-> 0, existing |-> Absent, write |-> Absent, seen |-> Absent]

\* The positions of the rows a select with .eq(...) matches.
StreakIds(activityType) ==
    {id \in 1..Len(user_streaks) : user_streaks[id].streak_type = activityType}
AchievementIds(badgeName) ==
    {id \in 1..Len(achievements) : achievements[id] = badgeName}

\* .single(): the row when exactly one matches, else no data.
Single(ids) == IF Cardinality(ids) = 1 THEN <<CHOOSE id \in ids : TRUE>> ELSE Absent

\* updateUserPointsAndStreak on an existing streak: newCount and newBest by
\* diffDays, and no update on the same day.
newStreakWithoutBest(existingStreak, day) ==
    LET diffDays == day - existingStreak.last_activity
        newCount == IF diffDays = 1 THEN existingStreak.current_count + 1 ELSE 1
    IN  IF diffDays = 0
        THEN Absent
        ELSE <<[current_count |-> newCount, best_count |-> newCount,
                last_activity |-> day]>>

newStreak(existingStreak, day) ==
    LET diffDays == day - existingStreak.last_activity
        newCount == IF diffDays = 1 THEN existingStreak.current_count + 1 ELSE 1
        newBest  == IF existingStreak.best_count > newCount
                    THEN existingStreak.best_count ELSE newCount
    IN  IF diffDays = 0
        THEN Absent
        ELSE <<[current_count |-> newCount, best_count |-> newBest,
                last_activity |-> day]>>

InitGame ==
    /\ GameIdle
    /\ ChatIdle
    /\ MindIdle
    /\ FoodIdle
    /\ CalcIdle
    /\ AppIdle
    /\ DbIdle

\* The device's date moves on to a later day.
DayPasses ==
    /\ \E day \in (today + 1)..MaxDay : today' = day
    /\ UNCHANGED <<total_points, current_badges, streak_count, achievements,
                   user_streaks, inFlight, started, awarded, sequential>>
    /\ UNCHANGED <<calcVars, appVars, dbVars, chatVars, mindVars, foodVars>>

Begin(c) ==
    /\ started < MaxCalls
    /\ BagCardinality(inFlight) < MaxInFlight
    /\ started' = started + 1
    /\ inFlight' = inFlight (+) SetToBag({c})
    /\ sequential' = (sequential /\ inFlight = EmptyBag)
    /\ UNCHANGED <<total_points, current_badges, streak_count, achievements,
                   user_streaks, today, awarded>>
    /\ UNCHANGED <<calcVars, appVars, dbVars, chatVars, mindVars, foodVars>>

\* saveFoodLog: the insert into food_logs succeeds.
SaveFoodLog ==
    \E pointsEarned \in PointsEarned :
        Begin([fn |-> "saveFoodLog", pc |-> "rpc", points |-> pointsEarned,
               key |-> "food_logging", locals |-> NoLocals])

\* saveMindScore: the insert into mind_scores succeeds.
SaveMindScore ==
    \E pointsEarned \in PointsEarned :
        Begin([fn |-> "saveMindScore", pc |-> "rpc", points |-> pointsEarned,
               key |-> "mind_check", locals |-> NoLocals])

\* awardAchievement: the call is made.
AwardAchievement ==
    \E badgeName \in BadgeNames, pointsValue \in PointsValue :
        Begin([fn |-> "awardAchievement", pc |-> "existing", points |-> pointsValue,
               key |-> badgeName, locals |-> NoLocals])

\* rpc('increment_user_points'): the database adds the points in one statement.
IncrementUserPoints ==
    \E c \in BagToSet(inFlight) :
        /\ c.pc = "rpc"
        /\ total_points' = total_points + c.points
        /\ awarded' = awarded + c.points
        /\ inFlight' = Continued(c, [c EXCEPT !.pc = "existingStreak"])
        /\ UNCHANGED <<current_badges, streak_count, achievements, user_streaks,
                       today, started, sequential>>
        /\ UNCHANGED <<calcVars, appVars, dbVars, chatVars, mindVars, foodVars>>

\* today is taken and the streak of the activity type selected; on the same
\* day the call returns.
SelectStreak ==
    \E c \in BagToSet(inFlight) :
        /\ c.pc = "existingStreak"
        /\ LET existingStreak == Single(StreakIds(c.key))
               write == IF existingStreak = Absent
                        THEN <<[current_count |-> 1, best_count |-> 1,
                                last_activity |-> today]>>
                        ELSE newStreak(user_streaks[existingStreak[1]], today)
           IN  inFlight' =
                   IF write = Absent
                   THEN Returned(c)
                   ELSE Continued(c, [c EXCEPT !.pc = "streak",
                                               !.locals = [today |-> today,
                                                           existing |-> existingStreak,
                                                           write |-> write,
                                                           seen |-> Absent]])
        /\ UNCHANGED <<total_points, current_badges, streak_count, achievements,
                       user_streaks, today, started, awarded, sequential>>
        /\ UNCHANGED <<calcVars, appVars, dbVars, chatVars, mindVars, foodVars>>

\* The update of the selected streak by its id, or the insert of a new one.
WriteStreak ==
    \E c \in BagToSet(inFlight) :
        /\ c.pc = "streak"
        /\ LET written == [streak_type |-> c.key] @@ c.locals.write[1]
           IN  user_streaks' =
                   IF c.locals.existing = Absent
                   THEN Append(user_streaks, written)
                   ELSE [user_streaks EXCEPT ![c.locals.existing[1]] = written]
        /\ inFlight' = Continued(c, [c EXCEPT !.pc = "streak_count"])
        /\ UNCHANGED <<total_points, current_badges, streak_count, achievements,
                       today, started, awarded, sequential>>
        /\ UNCHANGED <<calcVars, appVars, dbVars, chatVars, mindVars, foodVars>>

\* The update of user_profiles.streak_count; the save returns.
WriteStreakCount ==
    \E c \in BagToSet(inFlight) :
        /\ c.pc = "streak_count"
        /\ streak_count' = c.locals.write[1].current_count
        /\ inFlight' = Returned(c)
        /\ UNCHANGED <<total_points, current_badges, achievements, user_streaks,
                       today, started, awarded, sequential>>
        /\ UNCHANGED <<calcVars, appVars, dbVars, chatVars, mindVars, foodVars>>

\* awardAchievement selects the achievement and returns it when there is one.
SelectAchievement ==
    \E c \in BagToSet(inFlight) :
        /\ c.pc = "existing"
        /\ inFlight' = IF Single(AchievementIds(c.key)) # Absent
                       THEN Returned(c)
                       ELSE Continued(c, [c EXCEPT !.pc = "insert"])
        /\ UNCHANGED <<total_points, current_badges, streak_count, achievements,
                       user_streaks, today, started, awarded, sequential>>
        /\ UNCHANGED <<calcVars, appVars, dbVars, chatVars, mindVars, foodVars>>

\* The insert into achievements.
InsertAchievement ==
    \E c \in BagToSet(inFlight) :
        /\ c.pc = "insert"
        /\ achievements' = Append(achievements, c.key)
        /\ awarded' = awarded + c.points
        /\ inFlight' = Continued(c, [c EXCEPT !.pc = "profile"])
        /\ UNCHANGED <<total_points, current_badges, streak_count, user_streaks,
                       today, started, sequential>>
        /\ UNCHANGED <<calcVars, appVars, dbVars, chatVars, mindVars, foodVars>>

\* updateUserBadges reads the profile.
GetUserProfile ==
    \E c \in BagToSet(inFlight) :
        /\ c.pc = "profile"
        /\ inFlight' = Continued(c, [c EXCEPT
                            !.pc = "updatedBadges",
                            !.locals.seen = <<[total_points |-> total_points,
                                               current_badges |-> current_badges]>>])
        /\ UNCHANGED <<total_points, current_badges, streak_count, achievements,
                       user_streaks, today, started, awarded, sequential>>
        /\ UNCHANGED <<calcVars, appVars, dbVars, chatVars, mindVars, foodVars>>

\* updateUserBadges writes the badges and the points it computed from what it
\* read; awardAchievement returns.
UpdateUserBadges ==
    \E c \in BagToSet(inFlight) :
        /\ c.pc = "updatedBadges"
        /\ LET profileRead == c.locals.seen[1]
           IN  /\ current_badges' = Append(profileRead.current_badges, c.key)
               /\ total_points' = profileRead.total_points + c.points
        /\ inFlight' = Returned(c)
        /\ UNCHANGED <<streak_count, achievements, user_streaks, today, started,
                       awarded, sequential>>
        /\ UNCHANGED <<calcVars, appVars, dbVars, chatVars, mindVars, foodVars>>

NextGame ==
    \/ DayPasses
    \/ SaveFoodLog
    \/ SaveMindScore
    \/ AwardAchievement
    \/ IncrementUserPoints
    \/ SelectStreak
    \/ WriteStreak
    \/ WriteStreakCount
    \/ SelectAchievement
    \/ InsertAchievement
    \/ GetUserProfile
    \/ UpdateUserBadges

SpecGame == InitGame /\ [][NextGame]_vars

----------------------------------------------------------------------------
(* Claims about the calculators (checked under SpecCalc).                  *)

\* The input constraints of the specification's computeTargets.
Valid(p) ==
    /\ p.weight > 0
    /\ p.height > 0
    /\ p.age > 0
    /\ p.gender \in {"male", "female"}
    /\ p.activityLevel \in ActivityLevelSet

\* The two Mifflin-St Jeor formulas as the specification states them, x 4.
MaleBmr(p)   == 4 * (10 * p.weight - 5 * p.age + 5) + 25 * p.height
FemaleBmr(p) == 4 * (10 * p.weight - 5 * p.age - 161) + 25 * p.height

\* The formulas, and the values m and f for male and female at age 30,
\* 70 kg, 175 cm.
BmrAsSpecified(bmr, m, f) ==
    /\ input.gender = "male" => bmr = MaleBmr(input)
    /\ input.gender = "female" => bmr = FemaleBmr(input)
    /\ (input.gender = "male" /\ input.age = 30 /\ input.weight = 70
            /\ input.height = 175) => bmr = m
    /\ (input.gender = "female" /\ input.age = 30 /\ input.weight = 70
            /\ input.height = 175) => bmr = f

BmrOfAllAsSpecified(m, f) ==
    /\ nutritionTargets.outcome = "returned" =>
           BmrAsSpecified(nutritionTargets.bmr, m, f)
    /\ dailyRequirements.outcome = "returned" =>
           BmrAsSpecified(dailyRequirements.bmr, m, f)
    /\ tdeeResult.outcome = "returned" => BmrAsSpecified(tdeeResult.bmr, m, f)

\* C1 as stated: in each of the three calculators the bmr is
\* 10w + 6.25h - 5a + 5 for a male profile and 10w + 6.25h - 5a - 161 for a
\* female one; age 30, 70 kg, 175 cm gives 1673.75 and 1507.75.
C1_BmrByGenderAsStated == BmrOfAllAsSpecified(4 * 1673 + 3, 4 * 1507 + 3)

\* C1 as amended: the same two formulas; age 30, 70 kg, 175 cm gives
\* 1648.75 (male) and 1482.75 (female).
C1_BmrByGender == BmrOfAllAsSpecified(4 * 1648 + 3, 4 * 1482 + 3)

C1_Witness ==
    /\ input.gender = "female" /\ input.age = 30
    /\ input.weight = 70 /\ input.height = 175
    /\ nutritionTargets.outcome = "returned" /\ nutritionTargets.bmr = 5931
    /\ dailyRequirements.outcome = "returned" /\ dailyRequirements.bmr = 5931
    /\ tdeeResult.outcome = "returned" /\ tdeeResult.bmr = 5931

\* The multiplier table as the specification states it, in thousandths.
TableMultiplier ==
    [sedentary |-> 1200, light |-> 1375, moderate |-> 1550, active |-> 1725,
     very_active |-> 1900]

\* n is tdee (in 1/4000 kcal) rounded to the nearest integer, halves upwards.
IsRounded(n, tdee) == 4000 * n - 2000 <= tdee /\ tdee < 4000 * n + 2000

IsMockProfile(p) ==
    /\ p.gender = "male" /\ p.age = 28 /\ p.weight = 75 /\ p.height = 175
    /\ p.activityLevel = "moderate"

\* tdee and calorie target follow the table; example is the calorie target
\* of male, 28, 75 kg, 175 cm, moderate.
TdeeAndCalorieTarget(example) ==
    /\ (Valid(input) /\ nutritionTargets.outcome = "returned") =>
          /\ nutritionTargets.tdee =
                 nutritionTargets.bmr * TableMultiplier[input.activityLevel]
          /\ IsRounded(nutritionTargets.result.dailyCalorieTarget, nutritionTargets.tdee)
          /\ IsMockProfile(input) => nutritionTargets.result.dailyCalorieTarget = example
    /\ (Valid(input) /\ dailyRequirements.outcome = "returned") =>
          /\ dailyRequirements.tdee =
                 dailyRequirements.bmr * TableMultiplier[input.activityLevel]
          /\ IsRounded(dailyRequirements.result.calories, dailyRequirements.tdee)
          /\ IsMockProfile(input) => dailyRequirements.result.calories = example

\* C2 as stated: for a valid profile tdee = bmr x multiplier of the fixed
\* table and the daily calorie target is tdee rounded to the nearest integer;
\* male, 28, 75 kg, 175 cm, moderate gives 2701.
C2_TdeeAndCalorieTargetAsStated == TdeeAndCalorieTarget(2701)

\* C2 as amended: the same, and male, 28, 75 kg, 175 cm, moderate gives 2649
\* (bmr 1708.75, tdee 2648.5625).
C2_TdeeAndCalorieTarget == TdeeAndCalorieTarget(2649)

C2_Witness ==
    /\ IsMockProfile(input)
    /\ nutritionTargets.outcome = "returned"
    /\ nutritionTargets.bmr = 4 * 1708 + 3
    /\ nutritionTargets.result.dailyCalorieTarget = 2649
    /\ dailyRequirements.outcome = "returned"
    /\ dailyRequirements.result.calories = 2649

\* C3: a profile with a non-positive weight or height, or an activity level
\* outside the five values, ends the calculator with InvalidProfileError and
\* no targets record.
C3_InvalidInputRejected ==
    LET invalid == \/ input.weight <= 0
                   \/ input.height <= 0
                   \/ input.activityLevel \notin ActivityLevelSet
    IN  /\ (invalid /\ nutritionTargets.outcome # "pending") =>
               nutritionTargets.outcome = "InvalidProfileError"
        /\ (invalid /\ dailyRequirements.outcome # "pending") =>
               dailyRequirements.outcome = "InvalidProfileError"

\* C4: a profile whose gender is neither male nor female is not computed with
\* either BMR formula.
C4_NoFormulaForOtherGender ==
    (input.gender \notin {"male", "female"}) =>
        ~ /\ nutritionTargets.outcome = "returned"
          /\ nutritionTargets.bmr \in {MaleBmr(input), FemaleBmr(input)}

\* A step that moves the activity level of a valid profile up, all three
\* calculators having run.
RaisedStep ==
    /\ Valid(input)
    /\ Rank(input'.activityLevel) > Rank(input.activityLevel)
    /\ nutritionTargets.outcome = "returned"
    /\ dailyRequirements.outcome = "returned"
    /\ tdeeResult.outcome = "returned"

\* C8 as stated: for every valid profile tdee strictly increases when the
\* activity level moves up.
C8_TdeeStrictlyIncreases ==
    [][RaisedStep =>
          /\ nutritionTargets'.tdee > nutritionTargets.tdee
          /\ dailyRequirements'.tdee > dailyRequirements.tdee
          /\ tdeeResult'.result > tdeeResult.result]_vars

\* C8 as amended: for every valid profile whose bmr is positive, tdee
\* strictly increases when the activity level moves up; its rounded value
\* (the calorie target, calculateTDEE's result) never decreases, and strictly
\* increases when bmr is at least 5.75 kcal.
C8_TdeeIncreasesForPositiveBmr ==
    [][(RaisedStep /\ nutritionTargets.bmr > 0) =>
          /\ nutritionTargets'.tdee > nutritionTargets.tdee
          /\ dailyRequirements'.tdee > dailyRequirements.tdee
          /\ nutritionTargets'.result.dailyCalorieTarget
                 >= nutritionTargets.result.dailyCalorieTarget
          /\ dailyRequirements'.result.calories >= dailyRequirements.result.calories
          /\ tdeeResult'.result >= tdeeResult.result
          /\ nutritionTargets.bmr >= 23 =>
                /\ nutritionTargets'.result.dailyCalorieTarget
                       > nutritionTargets.result.dailyCalorieTarget
                /\ dailyRequirements'.result.calories > dailyRequirements.result.calories
                /\ tdeeResult'.result > tdeeResult.result]_vars

C8_Witness ==
    /\ Valid(input)
    /\ previousLevel = "sedentary" /\ input.activityLevel = "very_active"
    /\ nutritionTargets.outcome = "returned" /\ nutritionTargets.bmr > 0
    /\ dailyRequirements.outcome = "returned"
    /\ tdeeResult.outcome = "returned"
    /\ tdeeResult.result = nutritionTargets.result.dailyCalorieTarget

\* | 4 carbs + 9 fat - 0.75 calories | <= 6.5, the whole multiplied by 4.
WithinMacroShare(calories, carbs, fat) ==
    LET d == 16 * carbs + 36 * fat - 3 * calories
    IN  -26 <= d /\ d <= 26

\* C9: for every valid profile and in both calculators that produce macro
\* targets, 4 x carbs + 9 x fat differs from 0.75 x calorie target by at
\* most 6.5 kcal.
C9_MacroShare ==
    /\ (Valid(input) /\ nutritionTargets.outcome = "returned") =>
           WithinMacroShare(nutritionTargets.result.dailyCalorieTarget,
                            nutritionTargets.result.dailyCarbTarget,
                            nutritionTargets.result.dailyFatTarget)
    /\ (Valid(input) /\ dailyRequirements.outcome = "returned") =>
           WithinMacroShare(dailyRequirements.result.calories,
                            dailyRequirements.result.carbs,
                            dailyRequirements.result.fats)

C9_Witness ==
    /\ Valid(input)
    /\ nutritionTargets.outcome = "returned"
    /\ dailyRequirements.outcome = "returned"
    /\ dailyRequirements.result.calories > 2000
    /\ dailyRequirements.result.carbs > 200
    /\ dailyRequirements.result.fats > 60
    /\ 16 * dailyRequirements.result.carbs + 36 * dailyRequirements.result.fats
           # 3 * dailyRequirements.result.calories

\* n is round(share% of calories / kcalPerGram), halves upwards.
IsShareOf(n, calories, share, kcalPerGram) ==
    LET d == 100 * kcalPerGram
    IN  2 * d * n - d <= 2 * share * calories /\ 2 * share * calories < 2 * d * n + d

\* C10: at every call site carbs = round(calorie target x 0.45 / 4) and
\* fat = round(calorie target x 0.30 / 9) of the rounded calorie target, so
\* both calculators return the same calorie, carbohydrate and fat targets.
C10_SameMacroTargets ==
    /\ (Valid(input) /\ nutritionTargets.outcome = "returned") =>
          /\ IsShareOf(nutritionTargets.result.dailyCarbTarget,
                       nutritionTargets.result.dailyCalorieTarget, 45, 4)
          /\ IsShareOf(nutritionTargets.result.dailyFatTarget,
                       nutritionTargets.result.dailyCalorieTarget, 30, 9)
    /\ (Valid(input) /\ dailyRequirements.outcome = "returned") =>
          /\ IsShareOf(dailyRequirements.result.carbs,
                       dailyRequirements.result.calories, 45, 4)
          /\ IsShareOf(dailyRequirements.result.fats,
                       dailyRequirements.result.calories, 30, 9)
    /\ (Valid(input) /\ nutritionTargets.outcome = "returned"
            /\ dailyRequirements.outcome = "returned") =>
          /\ dailyRequirements.result.calories = nutritionTargets.result.dailyCalorieTarget
          /\ dailyRequirements.result.carbs = nutritionTargets.result.dailyCarbTarget
          /\ dailyRequirements.result.fats = nutritionTargets.result.dailyFatTarget

----------------------------------------------------------------------------
(* Claims about the profile held by App (checked under Spec).              *)

\* The calculator's result for the profile's own five inputs.
TargetsRecomputed(p) ==
    /\ p.dailyCalorieTarget = calculateNutritionTargets(p).dailyCalorieTarget
    /\ p.dailyProteinTarget = calculateNutritionTargets(p).dailyProteinTarget
    /\ p.dailyCarbTarget = calculateNutritionTargets(p).dailyCarbTarget
    /\ p.dailyFatTarget = calculateNutritionTargets(p).dailyFatTarget

BmiRecomputed(p) ==
    (p.weight # 0 /\ p.height # 0) => p.bmi = calculateBMI(p.weight, p.height)

\* C5: in every reachable state the target fields and bmi held in App's
\* userProfile equal the calculator's result for that profile's current
\* gender, age, weight, height and activity level.
C5_TargetsFunctionOfProfile == TargetsRecomputed(userProfile) /\ BmiRecomputed(userProfile)

\* C6: the profile that saveProfile hands to onProfileUpdate has bmi and all
\* four daily targets recomputed from the edited fields.
C6_SaveRecomputesAll ==
    [][(isEditing /\ ~isEditing' /\ currentScreen' = "Profile") =>
          TargetsRecomputed(userProfile') /\ BmiRecomputed(userProfile')]_vars

----------------------------------------------------------------------------
(* Claims about the stored profile (checked under SpecDb).                 *)

ProfileInputs(r) == <<r.weight, r.height, r.age, r.gender, r.physical_activity>>

\* C7: after updateUserProfile applies an update that changes any of weight,
\* height, age, gender or physical_activity of an existing user, the stored
\* bmi and tdee equal calculateBMI and calculateTDEE of the merged profile.
C7_UpdateRecalculates ==
    [][(call.pc = "update" /\ call'.pc = "idle" /\ row.exists
            /\ ProfileInputs(row') # ProfileInputs(row)) =>
          /\ row'.bmi = calculateBMI(row'.weight, row'.height)
          /\ row'.tdee = calculateTDEE(row')]_vars

\* b (in tenths) is a nearest tenth of weight / (height / 100)^2.  Either
\* neighbour counts at an exact half: there the double arithmetic of the
\* source can fall on the lower one (80 kg, 160 cm: 31.25 is shown as 31.2).
IsBmiOf(b, weight, height) ==
    LET hh == height * height
    IN  2 * hh * b - hh <= 2 * 100000 * weight /\ 2 * 100000 * weight <= 2 * hh * b + hh

\* C11: bmi is weight / (height/100)^2 rounded to one decimal place,
\* identically in SupabaseService.calculateBMI and in the profile screen's
\* derived-value effect; for 70 kg and 175 cm it is 22.9.
C11_BmiOneDecimal ==
    (bmiResult.outcome = "returned" /\ input.weight > 0 /\ input.height > 0) =>
        /\ IsBmiOf(bmiResult.calculateBMI, input.weight, input.height)
        /\ bmiResult.effect = bmiResult.calculateBMI
        /\ (input.weight = 70 /\ input.height = 175) => bmiResult.calculateBMI = 229

C11_Witness ==
    /\ bmiResult.outcome = "returned"
    /\ input.weight = 70 /\ input.height = 175
    /\ bmiResult.calculateBMI = 229 /\ bmiResult.effect = 229

----------------------------------------------------------------------------
(* Claims about the wellness chat (checked under SpecChat).                *)

\* C13: conversationCount never exceeds MAX_CONVERSATIONS, whatever the
\* interleaving of sends, replies, failures and conclusion timers.
C13_CountWithinLimit ==
    conversationCount <= MAX_CONVERSATIONS

Quiescent ==
    /\ sending = <<>>
    /\ timers = <<>>
    /\ concluding = <<>>

\* C14: once conversationCount has reached MAX_CONVERSATIONS the session
\* completes without a further user message: when every call has returned
\* or failed and every timer has fired, isComplete is true, finalScore is
\* set and isLoading is false.
C14_CompletesAtLimit ==
    (conversationCount = MAX_CONVERSATIONS /\ Quiescent) =>
        (isComplete /\ finalScore # Absent /\ ~isLoading)

GenericTips == Len(conversationState.microInsights) > 0

\* C18: concludeConversation ends on every path with finalScore within
\* 0..100 and isLoading false: a parsed reply gives the clamped score, an
\* unparsable one 75, 45 or 60, a failed call 60, and both fallbacks leave
\* non-empty generic tips.
C18_ConclusionInRange ==
    [][Len(concluding') < Len(concluding) =>
          /\ finalScore' # Absent
          /\ finalScore'[1] \in 0..100
          /\ ~isLoading'
          /\ path' = "unparsable" => (finalScore'[1] \in {75, 45, 60} /\ GenericTips')
          /\ path' = "throws" => (finalScore'[1] = 60 /\ GenericTips')]_vars


----------------------------------------------------------------------------
(* Claims about the 3-5 exchange assessment (checked under SpecMind).      *)

\* C15: the conversation is 3 to 5 exchanges long: shouldConclude becomes
\* true after no fewer than 3 and no more than 5 user messages, whatever the
\* model replies and whichever calls fail.
C15_ThreeToFiveExchanges ==
    /\ exchange.shouldConclude => exchange.userMessages >= 3
    /\ exchange.userMessages >= 5 => exchange.shouldConclude

InRange(score) ==
    /\ score.overallScore \in 0..100
    /\ score.vitality \in 0..100
    /\ score.emotional \in 0..100
    /\ score.social \in 0..100
    /\ score.stress \in 0..100
    /\ score.purpose \in 0..100

\* C16: every MindScoreMetrics that calculateMindScore returns, validated
\* or fallback, has its overall score and its five dimension scores within
\* 0..100, for any accumulated assessment data.
C16_MindScoreInRange ==
    mindScore # Absent => InRange(mindScore[1])

----------------------------------------------------------------------------
(* Claims about the food scan (checked under SpecFood).                    *)

\* C17: when image analysis fails at any step the scan degrades to the
\* 'Unknown Food' placeholder instead of raising, so analyzeFood always
\* ends with a result shown.
C17_ScanAlwaysShowsResult ==
    scanning = "done" => (analysisResult # Absent /\ ~alert)

\* C19: the calorie target refineNutritionData uses is computed from the
\* activity level of the profile App holds, so profiles that differ only in
\* activity level get different targets.
C19_TargetFromHeldActivityLevel ==
    (scanning = "done" /\ requirements # Absent) =>
        /\ requirements[1].physicalActivity = userProfile.activityLevel
        /\ requirements[1].calories =
               calculateDailyRequirements(AsFoodProfile(userProfile)).calories

RECURSIVE SumOfCalories(_)
SumOfCalories(items) ==
    IF items = <<>> THEN 0
    ELSE SumOfCalories(Tail(items))
         + (IF Head(items).calories.type = "undefined" THEN 0
            ELSE ToNumber(Head(items).calories))

RECURSIVE SumOfMacro(_, _)
SumOfMacro(items, field) ==
    IF items = <<>> THEN 0
    ELSE SumOfMacro(Tail(items), field)
         + (IF Head(items).macros = Absent THEN 0
            ELSE ToNumber(Head(items).macros[1][field]))

IsSum(total, items, field) ==
    total.type = "number" /\ total.number = SumOfMacro(items, field)

\* C20: in the result of validateAndSanitizeAnalysis healthScore and
\* confidenceLevel are within 0..100, totalMacros is the field-wise sum of
\* the items' protein, carbs, fats and fiber, and totalCalories is within 50
\* of the sum of the items' calories.
C20_SanitizedAnalysis ==
    imageAnalysis # Absent =>
        LET a == imageAnalysis[1]
            difference == a.totalCalories.number - SumOfCalories(a.foodItems)
        IN  /\ a.healthScore \in 0..100
            /\ a.confidenceLevel \in 0..100
            /\ \A field \in {"protein", "carbs", "fats", "fiber"} :
                   IsSum(a.totalMacros[field], a.foodItems, field)
            /\ a.totalCalories.type = "number"
            /\ difference \in -50..50

Supplied(score) == score.type = "number" /\ score.number \in 0..100

\* C21: sanitisation preserves in-range values: a score the model supplies
\* within 0..100, the value 0 included, is the sanitised score shown; only
\* missing or out-of-range values are replaced or clamped.
C21_InRangeScorePreserved ==
    (modelReply # Absent /\ modelReply[1].image.kind = "parsed" /\ imageAnalysis # Absent) =>
        /\ Supplied(modelReply[1].image.analysis.healthScore) =>
               imageAnalysis[1].healthScore = modelReply[1].image.analysis.healthScore.number
        /\ Supplied(modelReply[1].image.analysis.confidenceLevel) =>
               imageAnalysis[1].confidenceLevel
                   = modelReply[1].image.analysis.confidenceLevel.number

RecognitionOf(analysis) ==
    [foodItems |-> analysis.foodItems, totalCalories |-> analysis.totalCalories,
     totalMacros |-> analysis.totalMacros, healthScore |-> analysis.healthScore,
     confidenceLevel |-> analysis.confidenceLevel]

\* C22: refineNutritionData leaves the recognition result untouched: on
\* success and on failure the returned analysis has the foodItems,
\* totalCalories, totalMacros, healthScore and confidenceLevel of the
\* initial analysis, and on failure the lists are empty and calorieImpact
\* is the neutral one.
C22_RefinementKeepsRecognition ==
    (scanning = "done" /\ analysisResult # Absent /\ imageAnalysis # Absent) =>
        /\ RecognitionOf(analysisResult[1]) = RecognitionOf(imageAnalysis[1])
        /\ modelReply[1].refined = "fails" =>
               /\ analysisResult[1].userSpecificRecommendations = <<>>
               /\ analysisResult[1].calorieImpact = NeutralImpact


----------------------------------------------------------------------------
(* Claims about points, streaks and badges (checked under SpecGame).       *)

\* The rows of a streak type in a user_streaks table.
StreaksOf(activityType, table) ==
    {table[id] : id \in {n \in 1..Len(table) : table[n].streak_type = activityType}}

\* What one step may do to the streak of an activity type.
StreakStep(activityType) ==
    LET old == StreaksOf(activityType, user_streaks)
        new == StreaksOf(activityType, user_streaks')
    IN  /\ \A n \in new : n.best_count >= n.current_count /\ n.current_count >= 1
        /\ (old = {} /\ new # {}) =>
               \E n \in new : new = {n} /\ n.current_count = 1 /\ n.best_count = 1
        /\ (old # {} /\ new # old) =>
               \E o \in old, n \in new :
                   /\ old = {o}
                   /\ new = {n}
                   /\ n.best_count >= o.best_count
                   /\ n.last_activity # o.last_activity
                   /\ n.last_activity - o.last_activity = 1 =>
                          n.current_count = o.current_count + 1
                   /\ n.last_activity - o.last_activity # 1 => n.current_count = 1

\* A save that returns leaves the streak of its type at the day it took.
StreakRecorded ==
    \A c \in BagToSet(inFlight) :
        (inFlight' = EmptyBag /\ c.fn # "awardAchievement") =>
            \E n \in StreaksOf(c.key, user_streaks') :
                n.last_activity = IF c.pc = "existingStreak"
                                  THEN today ELSE c.locals.today

\* C23: while the updates execute one after the other, the first activity of
\* a type creates its streak with counts 1 and 1, an activity one day after
\* last_activity adds one to current_count, one on the same day leaves the
\* row unchanged, any other gap resets current_count to 1, and always
\* best_count >= current_count >= 1 and best_count never decreases.
C23_StreakBookkeeping ==
    [][sequential' => (StreakRecorded /\ \A activityType \in StreakTypes :
                                             StreakStep(activityType))]_vars

\* A streak that was extended to 2 and then reset, all calls having returned.
C23_Witness ==
    /\ sequential
    /\ inFlight = EmptyBag
    /\ \E n \in StreaksOf("food_logging", user_streaks) :
           n.current_count = 1 /\ n.best_count = 2

\* C24: a badge is awarded at most once under any interleaving of the
\* awardAchievement calls: at most one achievements row carries it and it
\* occurs at most once in current_badges.
C24_BadgeAwardedOnce ==
    \A badgeName \in BadgeNames :
        /\ Cardinality(AchievementIds(badgeName)) <= 1
        /\ Cardinality({n \in 1..Len(current_badges) :
                            current_badges[n] = badgeName}) <= 1

\* C25: when all calls have returned, total_points is its initial value 0
\* plus the sum of the points the calls awarded.
C25_NoPointsLost ==
    inFlight = EmptyBag => total_points = awarded


----------------------------------------------------------------------------
(* Claims about the context of the service-driven chat (SpecMind).         *)

\* The number of times a message occurs in userResponses.
Occurrences(userMessage) ==
    Cardinality({n \in 1..Len(context.userResponses) :
                     context.userResponses[n] = userMessage})

\* C26: once every message sent has been handled, context.messageCount is
\* the number of user messages sent and context.userResponses holds each of
\* them exactly once.
C26_ContextCountsMessages ==
    ~generating =>
        /\ context.messageCount = userMessages
        /\ \A userMessage \in 1..userMessages : Occurrences(userMessage) = 1

============================================================================
